---- MODULE Spec2Model ----
(***************************************************************************)
(* A model of the MCP-Tool-Demo repository:                                *)
(*   - the password manager tool server (src/Custom/password_server.py):   *)
(*     key file, storage file, and the tools of handle_call_tool;          *)
(*   - the MCP server manager (src/Client/mcp_connectors.py):              *)
(*     MCPServerManager and the module-level client functions;             *)
(*   - the WebSocket backend (src/Demo/websocket_server.py): the agent     *)
(*     shared by the client handlers.                                      *)
(* The specifications of the module: Spec and SpecHist (one password       *)
(* server), SpecLoad (its storage file in every condition), SpecProcs (two *)
(* password servers sharing the files), SpecGen (generate_password),       *)
(* SpecMgr (MCPServerManager), SpecWs and SpecQuery (the WebSocket         *)
(* backend).                                                               *)
(***************************************************************************)
EXTENDS Integers, Sequences, FiniteSets, TLC

VARIABLES
    pc,           \* the password server: "main" | "serving" | "replied"
    keyFile,      \* content of KEY_FILE: NoKey when the file is missing
    storageFile,  \* content of STORAGE_FILE: [kind, items]
    clock,        \* the wall clock read by datetime.now()
    response,     \* the TextContent returned by the last tool call
    callPassword, \* the password argument of the call being answered
                  \* (no response echoes it)
    saved,        \* history: per service, the arguments of the last successful
                  \* save_password not followed by an update or delete of it
    deleted,      \* history: services deleted and not saved since
    track,        \* whether the two history variables are kept
    gen,          \* generate_password: the call in progress
    servers,      \* MCPServerManager.servers: an ordered dict name -> config
    mgrResult,    \* the last MCPServerManager call: its arguments and result
    proc,         \* password server processes sharing the two files: each
                  \* one's position and local variables
    connected_clients, \* RealMCPWebSocketServer.connected_clients
    agent,        \* RealMCPWebSocketServer.agent (NoAgent is None)
    agent_ready,  \* RealMCPWebSocketServer.agent_ready
    handler,      \* per websocket: the position and locals of handle_client,
                  \* and the items its agent.stream(message) has yielded
    sent          \* per websocket: the messages passed to send_to_client by
                  \* the handle_execute_query running or last run

pwVars  == <<pc, keyFile, storageFile, clock, response, callPassword,
             saved, deleted, track>>
genVars == <<gen>>
mgrVars == <<servers, mgrResult>>
procVars == <<proc>>
wsVars  == <<connected_clients, agent, agent_ready, handler, sent>>
vars    == <<pc, keyFile, storageFile, clock, response, callPassword,
             saved, deleted, track, gen,
             servers, mgrResult, proc,
             connected_clients, agent, agent_ready, handler, sent>>

----------------------------------------------------------------------------
(* Bounds and input domains                                                *)

MaxTime == 1

Services  == {"gmail", "github"}
Usernames == {"alice", "bob"}
Passwords == {"pw1", "pw2"}
Urls      == {"", "https://x"}
Keys      == {"k1"}
IVs       == {"iv1", "iv2"}

NotesPreviewLen == 100
Ten       == "0123456789"
Fifty     == Ten \o Ten \o Ten \o Ten \o Ten
LongNotes == Fifty \o Fifty \o "!"
NotesSet  == {"", LongNotes}

NoKey   == "nokey"
Absent  == "<absent>"
Unknown == -1
NoSave  == [username |-> Absent, password |-> Absent]

----------------------------------------------------------------------------
(* Python dict, kept as the sequence of its (key, value) items in          *)
(* insertion order.                                                        *)

Range(f) == {f[i] : i \in DOMAIN f}

DictKeys(d) == [i \in 1..Len(d) |-> d[i][1]]
DictHas(d, k) == \E i \in 1..Len(d) : d[i][1] = k
DictIndex(d, k) == CHOOSE i \in 1..Len(d) : d[i][1] = k
DictGet(d, k) == d[DictIndex(d, k)][2]

DictSetAppend(d, k, v) == Append(d, <<k, v>>)
DictSetDefault(d, k, v) == IF DictHas(d, k) THEN d ELSE Append(d, <<k, v>>)
DictSet(d, k, v) ==
    IF DictHas(d, k)
    THEN [i \in 1..Len(d) |-> IF d[i][1] = k THEN <<k, v>> ELSE d[i]]
    ELSE Append(d, <<k, v>>)

DictPopKeep(d, k) == d
DictPop(d, k) ==
    LET i == DictIndex(d, k)
    IN  SubSeq(d, 1, i - 1) \o SubSeq(d, i + 1, Len(d))

----------------------------------------------------------------------------
(* Key file and Fernet                                                     *)

\* get_or_create_key: the key in the file, or a fresh key written to it.
get_or_create_key(kf, fresh) ==
    IF kf # NoKey
    THEN [key |-> kf, file |-> kf]
    ELSE [key |-> fresh, file |-> fresh]

b64encode(x) == <<"b64", x>>
b64decode(y) == y[2]

FernetEncrypt(key, plain, iv) == [key |-> key, plain |-> plain, iv |-> iv]

FernetDecrypt(key, token) ==
    IF token.key = key
    THEN [ok |-> TRUE, plain |-> token.plain]
    ELSE [ok |-> FALSE, plain |-> "InvalidToken"]

encrypt_password(password, key, iv) == b64encode(FernetEncrypt(key, password, iv))

decrypt_password(encrypted_password, key) ==
    FernetDecrypt(key, b64decode(encrypted_password))

----------------------------------------------------------------------------
(* Storage file                                                            *)

MissingFile == [kind |-> "missing", items |-> <<>>]
\* text that json.load rejects with JSONDecodeError
GarbageFile == [kind |-> "garbage", items |-> <<>>]
\* bytes that are not UTF-8: reading the file opened with encoding='utf-8'
\* raises UnicodeDecodeError
UndecodableFile == [kind |-> "undecodable", items |-> <<>>]

\* load_passwords catches json.JSONDecodeError and FileNotFoundError only.
load_raises(file) == file.kind = "undecodable"

load_passwords(file) ==
    IF file.kind = "missing" THEN <<>>
    ELSE IF file.kind = "json" THEN file.items
    ELSE <<>>

save_passwords(passwords) == [kind |-> "json", items |-> passwords]

----------------------------------------------------------------------------
(* Tool responses.  A response is the text returned to the client, kept as *)
(* the values the f-strings interpolate; a line the code leaves out is the *)
(* field's default.                                                        *)

NoResponse ==
    [tool |-> "", kind |-> "none", service |-> "",
     username |-> "", password |-> "", url |-> "", notes |-> "",
     time |-> Unknown, fields |-> <<>>, available |-> <<>>, listing |-> <<>>]

Resp(tool, kind, service) ==
    [tool |-> tool, kind |-> kind, service |-> service,
     username |-> "", password |-> "", url |-> "", notes |-> "",
     time |-> Unknown, fields |-> <<>>, available |-> <<>>, listing |-> <<>>]

\* Fernet.generate_key() runs only when the key file is missing.
GeneratedKeys(kf) == IF kf # NoKey THEN {NoKey} ELSE Keys

Truthy(str) == str # ""

----------------------------------------------------------------------------
(* The password server process                                             *)

\* main(): "Ensure key exists", then serve tool calls.
main ==
    /\ pc = "main"
    /\ \E fresh \in GeneratedKeys(keyFile) :
          keyFile' = get_or_create_key(keyFile, fresh).file
    /\ pc' = "serving"
    /\ UNCHANGED <<storageFile, clock, response, callPassword, saved, deleted>>

\* server.run: the handler's return value is sent, the next request awaited.
Reply ==
    /\ pc = "replied"
    /\ pc' = "serving"
    /\ response' = NoResponse
    /\ callPassword' = Absent
    /\ UNCHANGED <<keyFile, storageFile, clock, saved, deleted>>

\* datetime.now() advances between calls.
Tick ==
    /\ pc = "serving"
    /\ clock < MaxTime
    /\ clock' = clock + 1
    /\ UNCHANGED <<pc, keyFile, storageFile, response, callPassword, saved, deleted>>

NewEntry(username, encrypted_password, url, notes, current_time) ==
    [username |-> username, encrypted_password |-> encrypted_password,
     url |-> url, notes |-> notes,
     created_at |-> current_time, updated_at |-> current_time]

\* With string arguments and a key file written by get_or_create_key,
\* encrypt_password and json.dump do not raise: the except branch is not taken.
save_password(service, username, password, url, notes, fresh, iv) ==
    /\ pc = "serving"
    /\ ~load_raises(storageFile)
    /\ LET passwords == load_passwords(storageFile)
           k == get_or_create_key(keyFile, fresh)
           encrypted_password == encrypt_password(password, k.key, iv)
           current_time == clock
           entry == NewEntry(username, encrypted_password, url, notes, current_time)
       IN  /\ keyFile' = k.file
           /\ storageFile' = save_passwords(DictSet(passwords, service, entry))
           /\ response' = [Resp("save_password", "saved", service) EXCEPT
                              !.username = username, !.url = url,
                              !.notes = notes, !.time = current_time]
    /\ saved' = IF track
                THEN [saved EXCEPT ![service] =
                         [username |-> username, password |-> password]]
                ELSE saved
    /\ deleted' = deleted \ {service}
    /\ callPassword' = password
    /\ pc' = "replied"
    /\ UNCHANGED clock

get_password(service, fresh) ==
    /\ pc = "serving"
    /\ ~load_raises(storageFile)
    /\ LET passwords == load_passwords(storageFile)
       IN  IF ~DictHas(passwords, service)
           THEN /\ response' = [Resp("get_password", "not_found", service) EXCEPT
                                   !.available = DictKeys(passwords)]
                /\ UNCHANGED keyFile
           ELSE LET entry == DictGet(passwords, service)
                    k == get_or_create_key(keyFile, fresh)
                    decrypted == decrypt_password(entry.encrypted_password, k.key)
                IN  /\ keyFile' = k.file
                    /\ response' =
                         IF decrypted.ok
                         THEN [Resp("get_password", "found", service) EXCEPT
                                  !.username = entry.username,
                                  !.password = decrypted.plain,
                                  !.url = entry.url, !.notes = entry.notes,
                                  !.time = entry.updated_at]
                         ELSE Resp("get_password", "decrypt_failed", service)
    /\ pc' = "replied"
    /\ UNCHANGED <<storageFile, clock, callPassword, saved, deleted>>

NotesPreview(notes) ==
    IF Len(notes) > NotesPreviewLen
    THEN SubSeq(notes, 1, NotesPreviewLen) \o "..."
    ELSE notes

ListEntryLeaky(service, entry, show_details) ==
    [service |-> service, username |-> entry.username,
     details |-> show_details,
     url |-> IF show_details THEN entry.url ELSE "",
     notes |-> IF show_details THEN entry.encrypted_password[2].plain ELSE "",
     updated |-> IF show_details THEN entry.updated_at ELSE Unknown]
\* The lines list_passwords prints for one entry.
ListEntry(service, entry, show_details) ==
    [service |-> service, username |-> entry.username,
     details |-> show_details,
     url |-> IF show_details /\ Truthy(entry.url) THEN entry.url ELSE "",
     notes |-> IF show_details /\ Truthy(entry.notes)
               THEN NotesPreview(entry.notes) ELSE "",
     updated |-> IF show_details THEN entry.updated_at ELSE Unknown]

ListOutput(passwords, show_details) ==
    IF passwords = <<>>
    THEN Resp("list_passwords", "empty", "")
    ELSE [Resp("list_passwords", "listed", "") EXCEPT
             !.listing = [i \in 1..Len(passwords) |->
                            ListEntry(passwords[i][1], passwords[i][2], show_details)]]

list_passwords(show_details) ==
    /\ pc = "serving"
    /\ ~load_raises(storageFile)
    /\ response' = ListOutput(load_passwords(storageFile), show_details)
    /\ pc' = "replied"
    /\ UNCHANGED <<keyFile, storageFile, clock, callPassword, saved, deleted>>

delete_password(service) ==
    /\ pc = "serving"
    /\ ~load_raises(storageFile)
    /\ LET passwords == load_passwords(storageFile)
       IN  IF ~DictHas(passwords, service)
           THEN /\ response' = [Resp("delete_password", "not_found", service) EXCEPT
                                   !.available = DictKeys(passwords)]
                /\ UNCHANGED <<storageFile, saved, deleted>>
           ELSE LET deleted_entry == DictGet(passwords, service)
                IN  /\ storageFile' = save_passwords(DictPop(passwords, service))
                    /\ response' = [Resp("delete_password", "deleted", service) EXCEPT
                                       !.username = deleted_entry.username,
                                       !.time = deleted_entry.created_at]
                    /\ saved' = [saved EXCEPT ![service] = NoSave]
                    /\ deleted' = IF track THEN deleted \cup {service} ELSE deleted
    /\ pc' = "replied"
    /\ UNCHANGED <<keyFile, clock, callPassword>>

\* "x" in arguments and arguments["x"]
Provided(arg) == arg # Absent /\ Truthy(arg)

UpdatedFields(username, password, url, notes) ==
    (IF Provided(username) THEN <<"username">> ELSE <<>>) \o
    (IF Provided(password) THEN <<"password">> ELSE <<>>) \o
    (IF url # Absent THEN <<"url">> ELSE <<>>) \o
    (IF notes # Absent THEN <<"notes">> ELSE <<>>)

UpdateEntryClobber(entry, username, encrypted_password, password, url, notes, now) ==
    [username |-> IF username # Absent THEN username ELSE entry.username,
     encrypted_password |-> IF Provided(password) THEN encrypted_password
                            ELSE entry.encrypted_password,
     url |-> IF url # Absent THEN url ELSE entry.url,
     notes |-> IF notes # Absent THEN notes ELSE entry.notes,
     created_at |-> entry.created_at,
     updated_at |-> now]
UpdateEntry(entry, username, encrypted_password, password, url, notes, now) ==
    [username |-> IF Provided(username) THEN username ELSE entry.username,
     encrypted_password |-> IF Provided(password) THEN encrypted_password
                            ELSE entry.encrypted_password,
     url |-> IF url # Absent THEN url ELSE entry.url,
     notes |-> IF notes # Absent THEN notes ELSE entry.notes,
     created_at |-> entry.created_at,
     updated_at |-> now]

update_password_upsert(service, username, password, url, notes, fresh, iv) ==
    /\ pc = "serving"
    /\ ~load_raises(storageFile)
    /\ LET passwords == load_passwords(storageFile)
           k == get_or_create_key(keyFile, fresh)
           old == IF DictHas(passwords, service) THEN DictGet(passwords, service)
                  ELSE NewEntry("", encrypt_password("", k.key, iv), "", "", clock)
           entry == UpdateEntry(old, username, encrypt_password(password, k.key, iv),
                                password, url, notes, clock)
       IN  /\ keyFile' = k.file
           /\ storageFile' = save_passwords(DictSet(passwords, service, entry))
           /\ response' = IF DictHas(passwords, service)
                          THEN [Resp("update_password", "updated", service) EXCEPT
                                   !.fields = UpdatedFields(username, password, url, notes),
                                   !.time = entry.updated_at]
                          ELSE [Resp("update_password", "not_found", service) EXCEPT
                                   !.available = DictKeys(passwords)]
    /\ saved' = [saved EXCEPT ![service] = NoSave]
    /\ callPassword' = password
    /\ pc' = "replied"
    /\ UNCHANGED <<clock, deleted>>
update_password(service, username, password, url, notes, fresh, iv) ==
    /\ pc = "serving"
    /\ ~load_raises(storageFile)
    /\ LET passwords == load_passwords(storageFile)
       IN  IF ~DictHas(passwords, service)
           THEN /\ response' = [Resp("update_password", "not_found", service) EXCEPT
                                   !.available = DictKeys(passwords)]
                /\ UNCHANGED <<keyFile, storageFile, saved, deleted>>
           ELSE LET k == IF Provided(password)
                         THEN get_or_create_key(keyFile, fresh)
                         ELSE [key |-> keyFile, file |-> keyFile]
                    entry == UpdateEntry(DictGet(passwords, service), username,
                                         encrypt_password(password, k.key, iv),
                                         password, url, notes, clock)
                IN  /\ keyFile' = k.file
                    /\ storageFile' = save_passwords(DictSet(passwords, service, entry))
                    /\ response' = [Resp("update_password", "updated", service) EXCEPT
                                       !.fields = UpdatedFields(username, password, url, notes),
                                       !.time = entry.updated_at]
                    /\ saved' = [saved EXCEPT ![service] = NoSave]
                    /\ UNCHANGED deleted
    /\ callPassword' = password
    /\ pc' = "replied"
    /\ UNCHANGED clock

\* A tool whose load_passwords() raises: the call is outside the handler's
\* try block, so the exception leaves handle_call_tool and the tool does
\* nothing more.
call_tool_raises(name) ==
    /\ pc = "serving"
    /\ load_raises(storageFile)
    /\ response' = Resp(name, "raised", "")
    /\ pc' = "replied"
    /\ UNCHANGED <<keyFile, storageFile, clock, callPassword, saved, deleted>>

StoreTools ==
    {"save_password", "get_password", "list_passwords", "delete_password",
     "update_password"}

----------------------------------------------------------------------------
(* Spec: the password store                                                *)

OptArgs(S) == {Absent, ""} \cup S

NoEnv == [none |-> TRUE, vars |-> <<>>]
NoConfig ==
    [name |-> "", command |-> "", args |-> <<>>, env |-> NoEnv,
     description |-> "", enabled |-> FALSE]
NoCall ==
    [op |-> "", call |-> NoConfig, selections |-> <<>>, ret |-> FALSE,
     config |-> <<>>]

NoFlags ==
    [lowercase |-> FALSE, uppercase |-> FALSE, numbers |-> FALSE, symbols |-> FALSE]
GenIdle ==
    [pc |-> "idle", length |-> 0, flags |-> NoFlags, password_list |-> <<>>,
     i |-> 0, kind |-> "none", password |-> <<>>]

Procs == {"p1", "p2"}
NoProc ==
    [pc |-> "off", ret |-> "", calls |-> 0, op |-> "", service |-> "",
     password |-> "", key |-> NoKey, passwords |-> <<>>, result |-> "none"]
ProcsOff == proc = [p \in Procs |-> NoProc]

Clients == {"c1", "c2"}
NoAgent == [owner |-> ""]
NoHandler ==
    [pc |-> "new", open |-> FALSE, enabled_servers |-> <<>>,
     step_count |-> 0, tool_execution_count |-> 0, stream |-> <<>>]
\* RealMCPWebSocketServer.__init__, no websocket accepted yet
WsInit ==
    /\ connected_clients = {}
    /\ agent = NoAgent
    /\ agent_ready = FALSE
    /\ handler = [c \in Clients |-> NoHandler]
    /\ sent = [c \in Clients |-> <<>>]

InitStore ==
    /\ pc = "main"
    /\ keyFile \in {NoKey} \cup Keys
    /\ storageFile \in {MissingFile, GarbageFile}
    /\ clock = 0
    /\ response = NoResponse
    /\ callPassword = Absent
    /\ saved = [s \in Services |-> NoSave]
    /\ deleted = {}
    /\ gen = GenIdle
    /\ servers = <<>>
    /\ mgrResult = NoCall
    /\ ProcsOff
    /\ WsInit

Init == InitStore /\ track = FALSE

SavePassword(U, N, I) ==
    \E service \in Services, username \in Usernames, password \in Passwords,
       url \in U, notes \in N, fresh \in GeneratedKeys(keyFile), iv \in I :
        save_password(service, username, password, url, notes, fresh, iv)

GetPassword ==
    \E service \in Services, fresh \in GeneratedKeys(keyFile) :
        get_password(service, fresh)

ListPasswords == \E show_details \in BOOLEAN : list_passwords(show_details)

DeletePassword == \E service \in Services : delete_password(service)

UpdatePassword(U, N, I) ==
    \E service \in Services, username \in OptArgs(Usernames),
       password \in OptArgs(Passwords), url \in {Absent} \cup U,
       notes \in {Absent} \cup N, fresh \in GeneratedKeys(keyFile), iv \in I :
        update_password(service, username, password, url, notes, fresh, iv)

notStore == <<track, gen, servers, mgrResult, procVars, wsVars>>

Next ==
    \/ main /\ UNCHANGED notStore
    \/ Reply /\ UNCHANGED notStore
    \/ Tick /\ UNCHANGED notStore
    \/ SavePassword(Urls, NotesSet, {"iv1"}) /\ UNCHANGED notStore
    \/ GetPassword /\ UNCHANGED notStore
    \/ ListPasswords /\ UNCHANGED notStore
    \/ DeletePassword /\ UNCHANGED notStore
    \/ UpdatePassword(Urls, NotesSet, {"iv1"}) /\ UNCHANGED notStore

Spec == Init /\ [][Next]_vars

(* SpecHist: the same server with the history variables kept; url and      *)
(* notes are left at their defaults and Fernet draws from two IVs.         *)

InitHist == InitStore /\ track = TRUE

NextHist ==
    \/ main /\ UNCHANGED notStore
    \/ Reply /\ UNCHANGED notStore
    \/ Tick /\ UNCHANGED notStore
    \/ SavePassword({""}, {""}, IVs) /\ UNCHANGED notStore
    \/ GetPassword /\ UNCHANGED notStore
    \/ ListPasswords /\ UNCHANGED notStore
    \/ DeletePassword /\ UNCHANGED notStore
    \/ UpdatePassword({}, {}, IVs) /\ UNCHANGED notStore

SpecHist == InitHist /\ [][NextHist]_vars

(* SpecLoad: the server started on a storage file in any condition:        *)
(* missing, not JSON, or not UTF-8.                                        *)

InitLoad ==
    /\ pc = "main"
    /\ keyFile \in {NoKey} \cup Keys
    /\ storageFile \in {MissingFile, GarbageFile, UndecodableFile}
    /\ clock = 0
    /\ response = NoResponse
    /\ callPassword = Absent
    /\ saved = [s \in Services |-> NoSave]
    /\ deleted = {}
    /\ track = FALSE
    /\ gen = GenIdle
    /\ servers = <<>>
    /\ mgrResult = NoCall
    /\ ProcsOff
    /\ WsInit

NextLoad ==
    \/ main /\ UNCHANGED notStore
    \/ Reply /\ UNCHANGED notStore
    \/ SavePassword({""}, {""}, {"iv1"}) /\ UNCHANGED notStore
    \/ GetPassword /\ UNCHANGED notStore
    \/ ListPasswords /\ UNCHANGED notStore
    \/ DeletePassword /\ UNCHANGED notStore
    \/ (\E name \in StoreTools : call_tool_raises(name)) /\ UNCHANGED notStore

SpecLoad == InitLoad /\ [][NextLoad]_vars

----------------------------------------------------------------------------------------------------------------------------------------
(* generate_password                                                       *)
(* A character is kept as the first character of its alphabet: the code    *)
(* treats the characters of one alphabet alike.                            *)

MaxShortLength == 5
SchemaMinLength == 8
SchemaMaxLength == 128
Lengths == (0..MaxShortLength) \cup {SchemaMinLength}

ascii_lowercase == <<"a">>
ascii_uppercase == <<"A">>
digits          == <<"0">>
symbols         == <<"!">>

Flags == [lowercase : BOOLEAN, uppercase : BOOLEAN, numbers : BOOLEAN,
          symbols : BOOLEAN]

\* "Build character set based on options"
CharSetNoSymbolCheck(f) ==
    (IF f.lowercase THEN ascii_lowercase ELSE <<>>) \o
    (IF f.uppercase THEN ascii_uppercase ELSE <<>>) \o
    (IF f.numbers THEN digits ELSE <<>>) \o
    symbols
CharSet(f) ==
    (IF f.lowercase THEN ascii_lowercase ELSE <<>>) \o
    (IF f.uppercase THEN ascii_uppercase ELSE <<>>) \o
    (IF f.numbers THEN digits ELSE <<>>) \o
    (IF f.symbols THEN symbols ELSE <<>>)

\* One "if include_x and pos < length" block: st is <<password_list, pos>>.
PlaceOne(st, include, length, c) ==
    IF include /\ st[2] < length
    THEN <<[st[1] EXCEPT ![st[2] + 1] = c], st[2] + 1>>
    ELSE st

PlaceOneShort(st, include, length, c) ==
    IF include /\ st[2] < length - 1
    THEN <<[st[1] EXCEPT ![st[2] + 1] = c], st[2] + 1>>
    ELSE st

\* "Ensure at least one character from each enabled set (if length allows)"
EnsureEachShort(password_list, length, f, cl, cu, cd, cs) ==
    PlaceOneShort(PlaceOneShort(PlaceOneShort(PlaceOneShort(<<password_list, 0>>,
        f.lowercase, length, cl), f.uppercase, length, cu),
        f.numbers, length, cd), f.symbols, length, cs)[1]
EnsureEach(password_list, length, f, cl, cu, cd, cs) ==
    PlaceOne(PlaceOne(PlaceOne(PlaceOne(<<password_list, 0>>,
        f.lowercase, length, cl), f.uppercase, length, cu),
        f.numbers, length, cd), f.symbols, length, cs)[1]

\* x[i], x[j] = x[j], x[i] on 0-based positions
Swap(x, i, j) == [x EXCEPT ![i + 1] = x[j + 1], ![j + 1] = x[i + 1]]

\* handle_call_tool("generate_password", arguments): read the arguments and
\* build chars.
GenCall(length, f) ==
    /\ gen.pc = "idle"
    /\ gen' = IF CharSet(f) = <<>>
              THEN [gen EXCEPT !.pc = "done", !.length = length, !.flags = f,
                               !.kind = "error"]
              ELSE [gen EXCEPT !.pc = "generate", !.length = length, !.flags = f]

\* password = ''.join(secrets.choice(chars) for _ in range(length))
GenFill ==
    /\ gen.pc = "generate"
    /\ \E password \in [1..gen.length -> Range(CharSet(gen.flags))] :
          gen' = [gen EXCEPT !.password_list = password,
                             !.pc = IF gen.length >= 2 THEN "ensure" ELSE "return"]

GenEnsure ==
    /\ gen.pc = "ensure"
    /\ \E cl \in Range(ascii_lowercase), cu \in Range(ascii_uppercase),
          cd \in Range(digits), cs \in Range(symbols) :
          gen' = [gen EXCEPT
                    !.password_list = EnsureEach(gen.password_list, gen.length,
                                                 gen.flags, cl, cu, cd, cs),
                    !.pc = "shuffle",
                    !.i = gen.length - 1]

\* secrets.SystemRandom().shuffle(password_list):
\* for i in reversed(range(1, len(x))): j = randbelow(i + 1); swap x[i], x[j]
GenShuffleStep ==
    /\ gen.pc = "shuffle"
    /\ gen.i >= 1
    /\ \E j \in 0..gen.i :
          gen' = [gen EXCEPT !.password_list = Swap(gen.password_list, gen.i, j),
                             !.i = gen.i - 1,
                             !.pc = IF gen.i = 1 THEN "return" ELSE "shuffle"]

GenReturn ==
    /\ gen.pc = "return"
    /\ gen' = [gen EXCEPT !.pc = "done", !.kind = "generated",
                          !.password = gen.password_list]

InitGen ==
    /\ pc = "main"
    /\ keyFile = NoKey
    /\ storageFile = MissingFile
    /\ clock = 0
    /\ response = NoResponse
    /\ callPassword = Absent
    /\ saved = [s \in Services |-> NoSave]
    /\ deleted = {}
    /\ track = FALSE
    /\ gen = GenIdle
    /\ servers = <<>>
    /\ mgrResult = NoCall
    /\ ProcsOff
    /\ WsInit

notGen == <<pc, keyFile, storageFile, clock, response, callPassword,
            saved, deleted, track, servers, mgrResult, procVars, wsVars>>

GeneratePassword == \E length \in Lengths, f \in Flags : GenCall(length, f)

NextGen ==
    \/ GeneratePassword /\ UNCHANGED notGen
    \/ GenFill /\ UNCHANGED notGen
    \/ GenEnsure /\ UNCHANGED notGen
    \/ GenShuffleStep /\ UNCHANGED notGen
    \/ GenReturn /\ UNCHANGED notGen

SpecGen == InitGen /\ [][NextGen]_vars

----------------------------------------------------------------------------
(* MCPServerManager                                                        *)

Cwd == "/cwd"
FilesystemPackage == <<"-y", "@modelcontextprotocol/server-filesystem">>

ServerNames == {"filesystem", "playwright", "password-manager"}

\* The env argument: None, or a dict kept as its items.
EnvArgs == {NoEnv, [none |-> FALSE, vars |-> <<>>],
            [none |-> FALSE, vars |-> <<<<"KEY", "value">>>>]}

\* The (command, args, env, description) a caller passes to
\* add_custom_server.
CustomArgs ==
    {[command |-> "npx", args |-> <<"@playwright/mcp@latest">>, env |-> e,
      description |-> "Browser automation"] : e \in EnvArgs}
    \cup
    {[command |-> "python", args |-> <<"password_server.py">>, env |-> NoEnv,
      description |-> ""]}

DirectoryLists == {<<>>, <<"/data">>, <<Cwd, "/data">>}

\* env or {}
EnvOrEmpty(env) == IF env.none \/ env.vars = <<>> THEN <<>> ELSE env.vars

MCPServerConfig(name, command, args, env, description, enabled) ==
    [name |-> name, command |-> command, args |-> args, env |-> env,
     description |-> description, enabled |-> enabled]

\* __init__ / _load_filesystem_default
LoadFilesystemDefault ==
    <<<<"filesystem",
        MCPServerConfig("filesystem", "npx", FilesystemPackage \o <<Cwd>>, <<>>,
            "File system operations - read, write, list files and directories",
            TRUE)>>>>

SetEnabled(d, name, enabled) ==
    DictSet(d, name, [DictGet(d, name) EXCEPT !.enabled = enabled])

\* get_enabled_servers: the enabled items, in dict order
get_enabled_servers(d) == SelectSeq(d, LAMBDA item : item[2].enabled)

Call(op, name) == [NoCall EXCEPT !.op = op, !.call.name = name]

enable_server(server_name) ==
    IF DictHas(servers, server_name)
    THEN /\ servers' = SetEnabled(servers, server_name, TRUE)
         /\ mgrResult' = [Call("enable_server", server_name) EXCEPT !.ret = TRUE]
    ELSE /\ mgrResult' = Call("enable_server", server_name)
         /\ UNCHANGED servers

disable_server(server_name) ==
    IF DictHas(servers, server_name)
    THEN /\ servers' = SetEnabled(servers, server_name, FALSE)
         /\ mgrResult' = [Call("disable_server", server_name) EXCEPT !.ret = TRUE]
    ELSE /\ mgrResult' = Call("disable_server", server_name)
         /\ UNCHANGED servers

toggle_server(server_name) ==
    IF DictHas(servers, server_name)
    THEN LET enabled == ~DictGet(servers, server_name).enabled
         IN  /\ servers' = SetEnabled(servers, server_name, enabled)
             /\ mgrResult' = [Call("toggle_server", server_name) EXCEPT
                                 !.ret = enabled]
    ELSE /\ mgrResult' = Call("toggle_server", server_name)
         /\ UNCHANGED servers

\* for server_name, enabled in server_selections.items(): ...
RECURSIVE ApplySelections(_, _)
ApplySelections(d, server_selections) ==
    IF server_selections = <<>> THEN d
    ELSE LET server_name == Head(server_selections)[1]
             enabled == Head(server_selections)[2]
         IN  ApplySelections(
                 IF DictHas(d, server_name) THEN SetEnabled(d, server_name, enabled)
                 ELSE d,
                 Tail(server_selections))

set_server_selections(server_selections) ==
    /\ servers' = ApplySelections(servers, server_selections)
    /\ mgrResult' = [Call("set_server_selections", "") EXCEPT
                        !.selections = server_selections]

AddServerOverwrite(d, name, c, enabled) ==
    [ret |-> ~DictHas(d, name),
     servers |-> DictSet(d, name,
                    MCPServerConfig(name, c.command, c.args, EnvOrEmpty(c.env),
                                    c.description, enabled))]
\* MCPServerManager.add_custom_server: the value returned and the dict left
AddServer(d, name, c, enabled) ==
    IF DictHas(d, name)
    THEN [ret |-> FALSE, servers |-> d]
    ELSE [ret |-> TRUE,
          servers |-> DictSet(d, name,
                         MCPServerConfig(name, c.command, c.args, EnvOrEmpty(c.env),
                                         c.description, enabled))]

add_custom_server(name, c, enabled) ==
    LET r == AddServer(servers, name, c, enabled)
    IN  /\ servers' = r.servers
        /\ mgrResult' = [Call("add_custom_server", name) EXCEPT
                            !.call = MCPServerConfig(name, c.command, c.args, c.env,
                                                     c.description, enabled),
                            !.ret = r.ret]

remove_server_any(server_name) ==
    IF DictHas(servers, server_name)
    THEN /\ servers' = DictPop(servers, server_name)
         /\ mgrResult' = [Call("remove_server", server_name) EXCEPT !.ret = TRUE]
    ELSE /\ mgrResult' = Call("remove_server", server_name)
         /\ UNCHANGED servers
remove_server(server_name) ==
    IF server_name = "filesystem"
    THEN /\ mgrResult' = Call("remove_server", server_name)
         /\ UNCHANGED servers
    ELSE IF DictHas(servers, server_name)
    THEN /\ servers' = DictPop(servers, server_name)
         /\ mgrResult' = [Call("remove_server", server_name) EXCEPT !.ret = TRUE]
    ELSE /\ mgrResult' = Call("remove_server", server_name)
         /\ UNCHANGED servers

update_filesystem_directories(directories) ==
    /\ servers' =
         IF DictHas(servers, "filesystem")
         THEN DictSet(servers, "filesystem",
                  [DictGet(servers, "filesystem") EXCEPT
                      !.args = FilesystemPackage \o directories])
         ELSE servers
    /\ mgrResult' = [Call("update_filesystem_directories", "") EXCEPT
                        !.call.args = directories]

\* config["mcpServers"] built from the enabled items
ClientConfig(enabled_servers) ==
    [i \in 1..Len(enabled_servers) |->
        <<enabled_servers[i][1],
          [command |-> enabled_servers[i][2].command,
           args |-> enabled_servers[i][2].args,
           env |-> enabled_servers[i][2].env]>>]

create_client_no_fallback ==
    /\ mgrResult' = [Call("create_client_from_selection", "") EXCEPT
                        !.config = ClientConfig(get_enabled_servers(servers))]
    /\ UNCHANGED servers

create_client_from_selection ==
    LET enabled_servers == get_enabled_servers(servers)
    IN  IF enabled_servers = <<>>
        THEN LET d == SetEnabled(servers, "filesystem", TRUE)
             IN  /\ servers' = d
                 /\ mgrResult' =
                      [Call("create_client_from_selection", "") EXCEPT
                          !.config = ClientConfig(
                              <<<<"filesystem", DictGet(d, "filesystem")>>>>)]
        ELSE /\ mgrResult' = [Call("create_client_from_selection", "") EXCEPT
                                 !.config = ClientConfig(enabled_servers)]
             /\ UNCHANGED servers

InitMgr ==
    /\ pc = "main"
    /\ keyFile = NoKey
    /\ storageFile = MissingFile
    /\ clock = 0
    /\ response = NoResponse
    /\ callPassword = Absent
    /\ saved = [s \in Services |-> NoSave]
    /\ deleted = {}
    /\ track = FALSE
    /\ gen = GenIdle
    /\ servers = LoadFilesystemDefault
    /\ mgrResult = NoCall
    /\ ProcsOff
    /\ WsInit

notMgr == <<pc, keyFile, storageFile, clock, response, callPassword,
            saved, deleted, track, gen, procVars, wsVars>>

\* The dicts a caller passes to set_server_selections.
SelectionDicts ==
    {<<>>} \cup {<<<<n, b>>>> : n \in ServerNames, b \in BOOLEAN}
    \cup {<<<<"filesystem", b>>, <<n, c>>>> :
            n \in ServerNames \ {"filesystem"}, b \in BOOLEAN, c \in BOOLEAN}

NextMgr ==
    \/ (\E n \in ServerNames : enable_server(n)) /\ UNCHANGED notMgr
    \/ (\E n \in ServerNames : disable_server(n)) /\ UNCHANGED notMgr
    \/ (\E n \in ServerNames : toggle_server(n)) /\ UNCHANGED notMgr
    \/ (\E sel \in SelectionDicts : set_server_selections(sel)) /\ UNCHANGED notMgr
    \/ (\E n \in ServerNames, c \in CustomArgs, e \in BOOLEAN :
           add_custom_server(n, c, e)) /\ UNCHANGED notMgr
    \/ (\E n \in ServerNames : remove_server(n)) /\ UNCHANGED notMgr
    \/ (\E dirs \in DirectoryLists : update_filesystem_directories(dirs))
          /\ UNCHANGED notMgr
    \/ create_client_from_selection /\ UNCHANGED notMgr

SpecMgr == InitMgr /\ [][NextMgr]_vars

----------------------------------------------------------------------------
(* SpecProcs: two password server processes sharing KEY_FILE and           *)
(* STORAGE_FILE.  A step of a process is one operation on a file           *)
(* (exists, read, write) with the computation that follows it; the         *)
(* processes' steps interleave.                                            *)

\* Fernet.generate_key() in the processes
ProcKeys == {"k1", "k2"}

\* The tool calls one process handles
MaxCalls == 2

\* A tool call arrives and the handler runs up to its load_passwords().
Called(p, op, service, password) ==
    [proc[p] EXCEPT !.op = op, !.service = service, !.password = password,
                    !.result = "none", !.calls = @ + 1,
                    !.passwords = load_passwords(storageFile)]

\* The handler returns its result; its local variables are gone.
Returns(p, result) ==
    [proc[p] EXCEPT !.pc = "idle", !.ret = "", !.result = result,
                    !.password = "", !.key = NoKey, !.passwords = <<>>]

\* get_or_create_key returns key to its caller; main() drops it.
KeyReturned(p, key) ==
    IF proc[p].ret = "idle"
    THEN Returns(p, "none")
    ELSE [proc[p] EXCEPT !.pc = proc[p].ret, !.ret = "", !.key = key]

\* main(), line 506: get_or_create_key() is entered
ProcMain(p) ==
    /\ proc[p].pc = "off"
    /\ proc' = [proc EXCEPT ![p].pc = "key_exists", ![p].ret = "idle"]
    /\ UNCHANGED <<keyFile, storageFile, saved>>

\* get_or_create_key, line 40: KEY_FILE.exists(); line 43 when it does not
KeyExists(p, fresh) ==
    /\ proc[p].pc = "key_exists"
    /\ proc' = IF keyFile # NoKey
               THEN [proc EXCEPT ![p].pc = "key_read"]
               ELSE [proc EXCEPT ![p].pc = "key_write", ![p].key = fresh]
    /\ UNCHANGED <<keyFile, storageFile, saved>>

\* get_or_create_key, line 41: KEY_FILE.read_bytes()
KeyRead(p) ==
    /\ proc[p].pc = "key_read"
    /\ proc' = [proc EXCEPT ![p] = KeyReturned(p, keyFile)]
    /\ UNCHANGED <<keyFile, storageFile, saved>>

\* get_or_create_key, lines 44-47: KEY_FILE.write_bytes(key)
KeyWrite(p) ==
    /\ proc[p].pc = "key_write"
    /\ keyFile' = proc[p].key
    /\ proc' = [proc EXCEPT ![p] = KeyReturned(p, proc[p].key)]
    /\ UNCHANGED <<storageFile, saved>>

\* save_password, lines 294-306: load_passwords(), then encrypt_password
\* enters get_or_create_key
ProcSavePassword(p, service, password) ==
    /\ proc[p].pc = "idle"
    /\ proc[p].calls < MaxCalls
    /\ proc' = [proc EXCEPT ![p] =
                   [Called(p, "save_password", service, password) EXCEPT
                       !.pc = "key_exists", !.ret = "save_write"]]
    /\ UNCHANGED <<keyFile, storageFile, saved>>

\* save_password, lines 306-334: encrypt, build the entry, save_passwords
ProcSaveWrite(p, username, iv) ==
    /\ proc[p].pc = "save_write"
    /\ LET encrypted_password == encrypt_password(proc[p].password, proc[p].key, iv)
           entry == NewEntry(username, encrypted_password, "", "", clock)
       IN  storageFile' =
               save_passwords(DictSet(proc[p].passwords, proc[p].service, entry))
    /\ saved' = [saved EXCEPT ![proc[p].service] =
                    [username |-> username, password |-> proc[p].password]]
    /\ proc' = [proc EXCEPT ![p] = Returns(p, "saved")]
    /\ UNCHANGED keyFile

\* get_password, lines 340-358
ProcGetPassword(p, service) ==
    /\ proc[p].pc = "idle"
    /\ proc[p].calls < MaxCalls
    /\ LET call == Called(p, "get_password", service, "")
       IN  proc' = [proc EXCEPT ![p] =
                       IF DictHas(call.passwords, service)
                       THEN [call EXCEPT !.pc = "key_exists",
                                         !.ret = "get_decrypt"]
                       ELSE [call EXCEPT !.result = "not_found", !.password = "",
                                         !.passwords = <<>>]]
    /\ UNCHANGED <<keyFile, storageFile, saved>>

\* get_password, lines 358-377: decrypt with the key obtained
ProcGetDecrypt(p) ==
    /\ proc[p].pc = "get_decrypt"
    /\ LET entry == DictGet(proc[p].passwords, proc[p].service)
           d == decrypt_password(entry.encrypted_password, proc[p].key)
       IN  proc' = [proc EXCEPT ![p] =
                       Returns(p, IF d.ok THEN "found" ELSE "decrypt_failed")]
    /\ UNCHANGED <<keyFile, storageFile, saved>>

\* update_password with a new password, lines 437-462
ProcUpdatePassword(p, service, password) ==
    /\ proc[p].pc = "idle"
    /\ proc[p].calls < MaxCalls
    /\ LET call == Called(p, "update_password", service, password)
       IN  proc' = [proc EXCEPT ![p] =
                       IF DictHas(call.passwords, service)
                       THEN [call EXCEPT !.pc = "key_exists",
                                         !.ret = "update_write"]
                       ELSE [call EXCEPT !.result = "not_found", !.password = "",
                                         !.passwords = <<>>]]
    /\ UNCHANGED <<keyFile, storageFile, saved>>

\* update_password, lines 462-492
ProcUpdateWrite(p, iv) ==
    /\ proc[p].pc = "update_write"
    /\ LET entry == DictGet(proc[p].passwords, proc[p].service)
           encrypted_password == encrypt_password(proc[p].password, proc[p].key, iv)
           updated == UpdateEntry(entry, Absent, encrypted_password,
                                  proc[p].password, Absent, Absent, clock)
       IN  storageFile' =
               save_passwords(DictSet(proc[p].passwords, proc[p].service, updated))
    /\ proc' = [proc EXCEPT ![p] = Returns(p, "updated")]
    /\ UNCHANGED <<keyFile, saved>>

InitProcs ==
    /\ pc = "main"
    /\ keyFile = NoKey
    /\ storageFile = MissingFile
    /\ clock = 0
    /\ response = NoResponse
    /\ callPassword = Absent
    /\ saved = [s \in Services |-> NoSave]
    /\ deleted = {}
    /\ track = TRUE
    /\ gen = GenIdle
    /\ servers = <<>>
    /\ mgrResult = NoCall
    /\ ProcsOff
    /\ WsInit

notProcs == <<pc, clock, response, callPassword, deleted, track, gen,
              servers, mgrResult, wsVars>>

NextProcs ==
    \/ (\E p \in Procs : ProcMain(p)) /\ UNCHANGED notProcs
    \/ (\E p \in Procs, fresh \in ProcKeys : KeyExists(p, fresh))
          /\ UNCHANGED notProcs
    \/ (\E p \in Procs : KeyRead(p)) /\ UNCHANGED notProcs
    \/ (\E p \in Procs : KeyWrite(p)) /\ UNCHANGED notProcs
    \/ (\E p \in Procs, service \in Services, password \in Passwords :
           ProcSavePassword(p, service, password)) /\ UNCHANGED notProcs
    \/ (\E p \in Procs : ProcSaveWrite(p, "alice", "iv1")) /\ UNCHANGED notProcs
    \/ (\E p \in Procs, service \in Services : ProcGetPassword(p, service))
          /\ UNCHANGED notProcs
    \/ (\E p \in Procs : ProcGetDecrypt(p)) /\ UNCHANGED notProcs
    \/ (\E p \in Procs, service \in Services, password \in Passwords :
           ProcUpdatePassword(p, service, password)) /\ UNCHANGED notProcs
    \/ (\E p \in Procs : ProcUpdateWrite(p, "iv1")) /\ UNCHANGED notProcs

SpecProcs == InitProcs /\ [][NextProcs]_vars

----------------------------------------------------------------------------
(* RealMCPWebSocketServer.  The handlers are coroutines of one event loop: *)
(* a step runs from one await to a later one, and consecutive awaits       *)
(* between which no attribute of the server is read or written are one     *)
(* step.  A websocket's messages are handled one at a time.                *)

MaxStreamItems == 3

\* A message passed to send_to_client, kept as the fields that vary.
Msg(type) ==
    [type |-> type, step_number |-> 0, total_steps |-> 0,
     tool_executions |-> 0, status |-> ""]
Status(status) == [Msg("status") EXCEPT !.status = status]

\* send_to_client: websocket.send raises once the connection is closed, and
\* the exception is logged and dropped.
send_to_client(c, log, messages) ==
    IF handler[c].open THEN log \o messages ELSE log

\* A message arrives on an open websocket whose handler awaits the next one.
Receives(c) == handler[c].pc = "idle" /\ handler[c].open

\* handle_client up to the message loop
Connect(c) ==
    /\ handler[c].pc = "new"
    /\ connected_clients' = connected_clients \cup {c}
    /\ handler' = [handler EXCEPT ![c].pc = "idle", ![c].open = TRUE]
    /\ sent' = [sent EXCEPT ![c] =
                   <<Msg("log"), Status("error"), Msg("server_list_update")>>]
    /\ UNCHANGED <<agent, agent_ready, servers, mgrResult>>

\* The peer closes the connection; the handler learns of it at its next
\* send or when it awaits the next message.
ConnectionClosed(c) ==
    /\ handler[c].open
    /\ handler' = [handler EXCEPT ![c].open = FALSE]
    /\ UNCHANGED <<connected_clients, agent, agent_ready, sent, servers, mgrResult>>

\* handle_start_agent, lines 69-83
handle_start_agent(c) ==
    /\ Receives(c)
    /\ handler' = [handler EXCEPT ![c].pc = "start_enabled"]
    /\ sent' = [sent EXCEPT ![c] =
                   send_to_client(c, <<>>, <<Msg("log"), Status("busy")>>)]
    /\ UNCHANGED <<connected_clients, agent, agent_ready, servers, mgrResult>>

\* lines 85-98
StartEnabled(c) ==
    /\ handler[c].pc = "start_enabled"
    /\ LET enabled_servers == get_enabled_servers(servers)
       IN  IF enabled_servers = <<>>
           THEN /\ handler' = [handler EXCEPT ![c].pc = "idle"]
                /\ sent' = [sent EXCEPT ![c] =
                               send_to_client(c, @, <<Msg("error")>>)]
           ELSE /\ handler' = [handler EXCEPT
                                  ![c].pc = "start_client",
                                  ![c].enabled_servers = DictKeys(enabled_servers)]
                /\ sent' = [sent EXCEPT ![c] =
                               send_to_client(c, @, <<Msg("log")>>)]
    /\ UNCHANGED <<connected_clients, agent, agent_ready, servers, mgrResult>>

\* mcp_connectors.create_multi_server_client
create_multi_server_client(server_selections) ==
    LET selected == IF server_selections # <<>>
                    THEN ApplySelections(servers, server_selections)
                    ELSE servers
        enabled_servers == get_enabled_servers(selected)
        d == IF enabled_servers = <<>>
             THEN SetEnabled(selected, "filesystem", TRUE)
             ELSE selected
    IN  /\ servers' = d
        /\ mgrResult' =
             [Call("create_client_from_selection", "") EXCEPT
                 !.selections = server_selections,
                 !.config = ClientConfig(
                     IF enabled_servers = <<>>
                     THEN <<<<"filesystem", DictGet(d, "filesystem")>>>>
                     ELSE enabled_servers)]

\* lines 100-108
StartClient(c) ==
    /\ handler[c].pc = "start_client"
    /\ LET names == handler[c].enabled_servers
           server_selections == [i \in 1..Len(names) |-> <<names[i], TRUE>>]
       IN  create_multi_server_client(server_selections)
    /\ handler' = [handler EXCEPT ![c].pc = "start_agent",
                                  ![c].enabled_servers = <<>>]
    /\ sent' = [sent EXCEPT ![c] = send_to_client(c, @, <<Msg("log")>>)]
    /\ UNCHANGED <<connected_clients, agent, agent_ready>>

\* The except branch of handle_start_agent, lines 151-166
StartFailed(c) ==
    /\ handler' = [handler EXCEPT ![c].pc = "idle"]
    /\ sent' = [sent EXCEPT ![c] =
                   send_to_client(c, @, <<Msg("error"), Status("error")>>)]

\* lines 110-126: get_gemini_llm() or LangGraphAgent(...) may raise
StartCreate(c, ok) ==
    /\ handler[c].pc = "start_agent"
    /\ IF ok
       THEN /\ agent' = [owner |-> c]
            /\ handler' = [handler EXCEPT ![c].pc = "start_init"]
            /\ sent' = [sent EXCEPT ![c] = send_to_client(c, @, <<Msg("log")>>)]
       ELSE /\ StartFailed(c)
            /\ UNCHANGED agent
    /\ UNCHANGED <<connected_clients, agent_ready, servers, mgrResult>>

\* line 129, the call: self.agent is read again; None has no initialize
StartInitialize(c) ==
    /\ handler[c].pc = "start_init"
    /\ IF agent = NoAgent
       THEN StartFailed(c)
       ELSE /\ handler' = [handler EXCEPT ![c].pc = "start_initializing"]
            /\ UNCHANGED sent
    /\ UNCHANGED <<connected_clients, agent, agent_ready, servers, mgrResult>>

\* line 129, the await returns or raises; lines 131-146
StartInitialized(c, ok) ==
    /\ handler[c].pc = "start_initializing"
    /\ IF ok
       THEN /\ handler' = [handler EXCEPT ![c].pc = "start_ready"]
            /\ sent' = [sent EXCEPT ![c] =
                           send_to_client(c, @, <<Msg("log"), Status("ready"),
                                                  Msg("agent_ready")>>)]
       ELSE StartFailed(c)
    /\ UNCHANGED <<connected_clients, agent, agent_ready, servers, mgrResult>>

\* line 148
StartReady(c) ==
    /\ handler[c].pc = "start_ready"
    /\ agent_ready' = TRUE
    /\ handler' = [handler EXCEPT ![c].pc = "idle"]
    /\ UNCHANGED <<connected_clients, agent, sent, servers, mgrResult>>

\* The except branch of handle_execute_query, lines 294-309
ExecFailed(c) ==
    /\ handler' = [handler EXCEPT ![c].pc = "idle"]
    /\ sent' = [sent EXCEPT ![c] =
                   send_to_client(c, @, <<Msg("error"), Status("ready")>>)]

\* handle_execute_query, lines 168-196
handle_execute_query(c) ==
    /\ Receives(c)
    /\ IF ~agent_ready \/ agent = NoAgent
       THEN /\ sent' = [sent EXCEPT ![c] =
                           send_to_client(c, <<>>, <<Msg("error")>>)]
            /\ UNCHANGED handler
       ELSE /\ sent' = [sent EXCEPT ![c] =
                           send_to_client(c, <<>>, <<Msg("log"), Status("busy"),
                                                     Msg("stealth_header")>>)]
            /\ handler' = [handler EXCEPT ![c].pc = "exec_stream"]
    /\ UNCHANGED <<connected_clients, agent, agent_ready, servers, mgrResult>>

\* lines 198-203: self.agent is read again; None has no stream
ExecStream(c) ==
    /\ handler[c].pc = "exec_stream"
    /\ IF agent = NoAgent
       THEN ExecFailed(c)
       ELSE /\ handler' = [handler EXCEPT ![c].pc = "exec_pull",
                                          ![c].step_count = 0,
                                          ![c].tool_execution_count = 0,
                                          ![c].stream = <<>>]
            /\ UNCHANGED sent
    /\ UNCHANGED <<connected_clients, agent, agent_ready, servers, mgrResult>>

\* What the stream yields next: a dict of type tool_call, tool_result or
\* ai_message (substantial), anything the loop passes over ("other"), a str
\* ("final"), its end, or an exception.
StreamItems == {"tool_call", "tool_result", "ai_message", "other"}
StreamEnds == {"final", "end", "raise"}

ToolCallStale(c) ==
    /\ handler' = [handler EXCEPT
                      ![c].step_count = @ + 1,
                      ![c].tool_execution_count = @ + 1,
                      ![c].stream = Append(@, "tool_call")]
    /\ sent' = [sent EXCEPT ![c] =
                   send_to_client(c, @,
                       <<[Msg("stealth_step") EXCEPT
                             !.step_number = handler[c].step_count,
                             !.tool_executions = handler[c].tool_execution_count],
                         Msg("log")>>)]

ToolCall(c) ==
    LET step_count == handler[c].step_count + 1
        tool_execution_count == handler[c].tool_execution_count + 1
    IN  /\ handler' = [handler EXCEPT
                          ![c].step_count = step_count,
                          ![c].tool_execution_count = tool_execution_count,
                          ![c].stream = Append(@, "tool_call")]
        /\ sent' = [sent EXCEPT ![c] =
                       send_to_client(c, @,
                           <<[Msg("stealth_step") EXCEPT
                                 !.step_number = step_count,
                                 !.tool_executions = tool_execution_count],
                             Msg("log")>>)]

\* One iteration of the async for, lines 203-265, and on its exit line 268
ExecItem(c, item) ==
    /\ handler[c].pc = "exec_pull"
    /\ item \in StreamItems => Len(handler[c].stream) < MaxStreamItems
    /\ CASE item = "tool_call" -> ToolCall(c)
         [] item = "tool_result" ->
              /\ handler' = [handler EXCEPT ![c].stream = Append(@, item)]
              /\ sent' = [sent EXCEPT ![c] =
                             send_to_client(c, @,
                                 <<[Msg("stealth_result") EXCEPT
                                       !.step_number = handler[c].step_count],
                                   Msg("log")>>)]
         [] item = "ai_message" ->
              /\ handler' = [handler EXCEPT ![c].stream = Append(@, item)]
              /\ sent' = [sent EXCEPT ![c] =
                             send_to_client(c, @, <<Msg("stealth_reasoning"),
                                                    Msg("log")>>)]
         [] item = "other" ->
              /\ handler' = [handler EXCEPT ![c].stream = Append(@, item)]
              /\ UNCHANGED sent
         [] item \in {"final", "end"} ->
              /\ handler' = [handler EXCEPT ![c].pc = "exec_chat"]
              /\ sent' = [sent EXCEPT ![c] =
                             send_to_client(c, @,
                                 <<[Msg("stealth_complete") EXCEPT
                                       !.total_steps = handler[c].step_count,
                                       !.tool_executions =
                                           handler[c].tool_execution_count]>>)]
         [] item = "raise" -> ExecFailed(c)
    /\ UNCHANGED <<connected_clients, agent, agent_ready, servers, mgrResult>>

\* lines 275-292
ExecChat(c) ==
    /\ handler[c].pc = "exec_chat"
    /\ handler' = [handler EXCEPT ![c].pc = "idle"]
    /\ sent' = [sent EXCEPT ![c] =
                   send_to_client(c, @, <<Msg("chat_response"), Msg("log"),
                                          Status("ready")>>)]
    /\ UNCHANGED <<connected_clients, agent, agent_ready, servers, mgrResult>>

\* handle_message, reset_agent: lines 427-430
reset_agent(c) ==
    /\ Receives(c)
    /\ IF agent # NoAgent
       THEN /\ handler' = [handler EXCEPT ![c].pc = "reset_close"]
            /\ sent' = [sent EXCEPT ![c] = <<>>]
            /\ UNCHANGED <<agent, agent_ready>>
       ELSE /\ agent' = NoAgent
            /\ agent_ready' = FALSE
            /\ sent' = [sent EXCEPT ![c] =
                           send_to_client(c, <<>>, <<Status("error"), Msg("log")>>)]
            /\ UNCHANGED handler
    /\ UNCHANGED <<connected_clients, servers, mgrResult>>

\* agent.close() returns (lines 431-444) or raises (lines 461-467)
ResetClosed(c, ok) ==
    /\ handler[c].pc = "reset_close"
    /\ handler' = [handler EXCEPT ![c].pc = "idle"]
    /\ IF ok
       THEN /\ agent' = NoAgent
            /\ agent_ready' = FALSE
            /\ sent' = [sent EXCEPT ![c] =
                           send_to_client(c, @, <<Status("error"), Msg("log")>>)]
       ELSE /\ sent' = [sent EXCEPT ![c] = send_to_client(c, @, <<Msg("error")>>)]
            /\ UNCHANGED <<agent, agent_ready>>
    /\ UNCHANGED <<connected_clients, servers, mgrResult>>

\* handle_toggle_server
handle_toggle_server(c, server_name, enabled) ==
    /\ Receives(c)
    /\ IF enabled THEN enable_server(server_name) ELSE disable_server(server_name)
    /\ sent' = [sent EXCEPT ![c] =
                   send_to_client(c, <<>>, <<Msg("log"), Msg("server_list_update")>>)]
    /\ UNCHANGED <<connected_clients, agent, agent_ready, handler>>

\* handle_client, the finally block: lines 499-503, or 510 at once
Cleanup(c) ==
    /\ handler[c].pc = "idle"
    /\ ~handler[c].open
    /\ IF agent # NoAgent /\ Cardinality(connected_clients) <= 1
       THEN /\ handler' = [handler EXCEPT ![c].pc = "cleanup_close"]
            /\ UNCHANGED connected_clients
       ELSE /\ handler' = [handler EXCEPT ![c].pc = "gone"]
            /\ connected_clients' = connected_clients \ {c}
    /\ UNCHANGED <<agent, agent_ready, sent, servers, mgrResult>>

\* agent.close() returns (lines 504-506) or raises (507-508); then line 510
CleanupClosed(c, ok) ==
    /\ handler[c].pc = "cleanup_close"
    /\ IF ok
       THEN agent' = NoAgent /\ agent_ready' = FALSE
       ELSE UNCHANGED <<agent, agent_ready>>
    /\ connected_clients' = connected_clients \ {c}
    /\ handler' = [handler EXCEPT ![c].pc = "gone"]
    /\ UNCHANGED <<sent, servers, mgrResult>>

\* main(): the server object, the global manager
InitWs ==
    /\ pc = "main"
    /\ keyFile = NoKey
    /\ storageFile = MissingFile
    /\ clock = 0
    /\ response = NoResponse
    /\ callPassword = Absent
    /\ saved = [s \in Services |-> NoSave]
    /\ deleted = {}
    /\ track = FALSE
    /\ gen = GenIdle
    /\ servers = LoadFilesystemDefault
    /\ mgrResult = NoCall
    /\ ProcsOff
    /\ WsInit

notWs == <<pc, keyFile, storageFile, clock, response, callPassword,
           saved, deleted, track, gen, procVars>>

\* SpecWs: two websockets; their streams end or raise at once.
NextWs ==
    \/ (\E c \in Clients : Connect(c)) /\ UNCHANGED notWs
    \/ (\E c \in Clients : ConnectionClosed(c)) /\ UNCHANGED notWs
    \/ (\E c \in Clients : handle_start_agent(c)) /\ UNCHANGED notWs
    \/ (\E c \in Clients : StartEnabled(c)) /\ UNCHANGED notWs
    \/ (\E c \in Clients : StartClient(c)) /\ UNCHANGED notWs
    \/ (\E c \in Clients, ok \in BOOLEAN : StartCreate(c, ok)) /\ UNCHANGED notWs
    \/ (\E c \in Clients : StartInitialize(c)) /\ UNCHANGED notWs
    \/ (\E c \in Clients, ok \in BOOLEAN : StartInitialized(c, ok))
          /\ UNCHANGED notWs
    \/ (\E c \in Clients : StartReady(c)) /\ UNCHANGED notWs
    \/ (\E c \in Clients : handle_execute_query(c)) /\ UNCHANGED notWs
    \/ (\E c \in Clients : ExecStream(c)) /\ UNCHANGED notWs
    \/ (\E c \in Clients, item \in StreamEnds : ExecItem(c, item))
          /\ UNCHANGED notWs
    \/ (\E c \in Clients : ExecChat(c)) /\ UNCHANGED notWs
    \/ (\E c \in Clients : reset_agent(c)) /\ UNCHANGED notWs
    \/ (\E c \in Clients, ok \in BOOLEAN : ResetClosed(c, ok)) /\ UNCHANGED notWs
    \/ (\E c \in Clients, enabled \in BOOLEAN :
           handle_toggle_server(c, "filesystem", enabled)) /\ UNCHANGED notWs
    \/ (\E c \in Clients : Cleanup(c)) /\ UNCHANGED notWs
    \/ (\E c \in Clients, ok \in BOOLEAN : CleanupClosed(c, ok)) /\ UNCHANGED notWs

SpecWs == InitWs /\ [][NextWs]_vars

\* SpecQuery: one websocket, streams of every kind of item.
NextQuery ==
    \/ (\E c \in {"c1"} : Connect(c)) /\ UNCHANGED notWs
    \/ (\E c \in {"c1"} : ConnectionClosed(c)) /\ UNCHANGED notWs
    \/ (\E c \in {"c1"} : handle_start_agent(c)) /\ UNCHANGED notWs
    \/ (\E c \in {"c1"} : StartEnabled(c)) /\ UNCHANGED notWs
    \/ (\E c \in {"c1"} : StartClient(c)) /\ UNCHANGED notWs
    \/ (\E c \in {"c1"}, ok \in BOOLEAN : StartCreate(c, ok)) /\ UNCHANGED notWs
    \/ (\E c \in {"c1"} : StartInitialize(c)) /\ UNCHANGED notWs
    \/ (\E c \in {"c1"}, ok \in BOOLEAN : StartInitialized(c, ok))
          /\ UNCHANGED notWs
    \/ (\E c \in {"c1"} : StartReady(c)) /\ UNCHANGED notWs
    \/ (\E c \in {"c1"} : handle_execute_query(c)) /\ UNCHANGED notWs
    \/ (\E c \in {"c1"} : ExecStream(c)) /\ UNCHANGED notWs
    \/ (\E c \in {"c1"}, item \in StreamItems \cup StreamEnds : ExecItem(c, item))
          /\ UNCHANGED notWs
    \/ (\E c \in {"c1"} : ExecChat(c)) /\ UNCHANGED notWs
    \/ (\E c \in {"c1"} : reset_agent(c)) /\ UNCHANGED notWs
    \/ (\E c \in {"c1"}, ok \in BOOLEAN : ResetClosed(c, ok)) /\ UNCHANGED notWs
    \/ (\E c \in {"c1"}, enabled \in BOOLEAN :
           handle_toggle_server(c, "filesystem", enabled)) /\ UNCHANGED notWs
    \/ (\E c \in {"c1"} : Cleanup(c)) /\ UNCHANGED notWs
    \/ (\E c \in {"c1"}, ok \in BOOLEAN : CleanupClosed(c, ok)) /\ UNCHANGED notWs

SpecQuery == InitWs /\ [][NextQuery]_vars

----------------
(* Properties of the password store                                        *)

Store == load_passwords(storageFile)
EntryOrNone(d, s) == IF DictHas(d, s) THEN <<DictGet(d, s)>> ELSE <<>>
KeyCount(d, k) == Cardinality({i \in 1..Len(d) : d[i][1] = k})
OthersKept(d, e, s) ==
    \A t \in Services \ {s} : EntryOrNone(e, t) = EntryOrNone(d, t)

\* C1: once save_password(s, u, p) has succeeded, a get_password(s) issued
\* before any later save, update or delete of s returns username u and
\* exactly the password p, whatever was done to other services in between.
C1_SaveThenGet ==
    (pc = "replied" /\ response.tool = "get_password"
        /\ saved[response.service] # NoSave)
    => /\ response.kind = "found"
       /\ response.username = saved[response.service].username
       /\ response.password = saved[response.service].password

C1_Witness ==
    /\ pc = "replied"
    /\ response.tool = "get_password"
    /\ response.kind = "found"
    /\ saved[response.service] # NoSave
    /\ \E t \in Services \ {response.service} :
          /\ DictHas(Store, t)
          /\ DictGet(Store, t).updated_at > DictGet(Store, response.service).updated_at

\* The stores that differ from d in the stored passwords only.
AllTokens ==
    {encrypt_password(p, k, iv) : p \in Passwords, k \in Keys, iv \in IVs}
Variants(d) ==
    {[i \in 1..Len(d) |-> <<d[i][1], [d[i][2] EXCEPT !.encrypted_password = f[i]]>>] :
        f \in [1..Len(d) -> AllTokens]}

\* C2: the text list_passwords returns does not depend on the stored
\* passwords: a store that differs only in the passwords gives the same
\* output, for either value of show_details.
C2_ListHidesPasswords ==
    (pc = "replied" /\ response.tool = "list_passwords")
    => \E show_details \in BOOLEAN :
          /\ response = ListOutput(Store, show_details)
          /\ \A v \in Variants(Store) : ListOutput(v, show_details) = response

C2_Witness ==
    /\ pc = "replied"
    /\ response.tool = "list_passwords"
    /\ response.kind = "listed"
    /\ Len(response.listing) = 2
    /\ response.listing[1].details
    /\ DictGet(Store, "gmail").encrypted_password
          # DictGet(Store, "github").encrypted_password

\* A save_password step that has just returned success for service s.
SaveStep(s) ==
    /\ pc = "serving"
    /\ response'.tool = "save_password"
    /\ response'.kind = "saved"
    /\ response'.service = s

\* C3: the store holds at most one entry per service: a save_password for a
\* service that already exists replaces that entry's username, password,
\* url, notes, created_at and updated_at by the values of the new call and
\* leaves the entry of every other service unchanged.
C3_SaveReplaces ==
    [][\A s \in Services :
         (SaveStep(s) /\ DictHas(Store, s))
         => LET e == DictGet(Store', s)
                d == decrypt_password(e.encrypted_password, keyFile')
            IN  /\ KeyCount(Store', s) = 1
                /\ \A t \in Services : KeyCount(Store', t) <= 1
                /\ e.username = response'.username
                /\ d.ok /\ d.plain = callPassword'
                /\ e.url = response'.url
                /\ e.notes = response'.notes
                /\ e.created_at = clock /\ e.updated_at = clock
                /\ response'.time = clock
                /\ OthersKept(Store, Store', s)]_vars

\* gmail was saved, github added later, then gmail saved again.
C3_Witness ==
    /\ pc = "replied"
    /\ response.tool = "save_password"
    /\ response.service = "gmail"
    /\ Len(Store) = 2
    /\ Store[1][1] = "gmail"
    /\ Store[1][2].created_at > Store[2][2].created_at

\* C4: after delete_password(s) has succeeded, s is absent from the store,
\* the entry of every other service is unchanged, and get_password(s)
\* reports 'No password found' until a later save_password for s.
C4_DeleteRemoves ==
    [][/\ \A s \in Services :
            (pc = "serving" /\ response'.tool = "delete_password"
                /\ response'.kind = "deleted" /\ response'.service = s)
            => /\ s \in deleted'
               /\ OthersKept(Store, Store', s)
       /\ \A s \in deleted' :
            /\ ~DictHas(Store', s)
            /\ (response'.tool = "get_password" /\ response'.service = s)
               => response'.kind = "not_found"]_vars

C4_Witness ==
    /\ pc = "replied"
    /\ response.tool = "get_password"
    /\ response.service \in deleted
    /\ response.kind = "not_found"
    /\ Store # <<>>

\* C5: get_password, delete_password and update_password for a service
\* that is not in the store answer 'No password found for service' and
\* leave the storage file as it was: no entry is created, modified or
\* removed.
C5_MissingService ==
    [][(/\ pc = "serving"
        /\ response'.tool \in {"get_password", "delete_password", "update_password"}
        /\ ~DictHas(Store, response'.service))
       => /\ response'.kind = "not_found"
          /\ storageFile' = storageFile]_vars

C5_Witness ==
    /\ pc = "replied"
    /\ response.tool = "update_password"
    /\ response.kind = "not_found"
    /\ callPassword \in Passwords
    /\ Len(Store) = 1

\* An update_password step that has just returned success for service s.
UpdateStep(s) ==
    /\ pc = "serving"
    /\ response'.tool = "update_password"
    /\ response'.kind = "updated"
    /\ response'.service = s

\* C6: update_password on an existing service changes only the fields
\* supplied: a username, password, url or notes that is not provided keeps
\* its stored value (the encrypted password included), created_at never
\* changes, and the entries of other services are unchanged.
C6_UpdateKeepsOmitted ==
    [][\A s \in Services :
         UpdateStep(s)
         => LET old == DictGet(Store, s)
                new == DictGet(Store', s)
                given == Range(response'.fields)
            IN  /\ DictHas(Store, s) /\ DictHas(Store', s)
                /\ "username" \notin given => new.username = old.username
                /\ ("password" \notin given \/ ~Provided(callPassword'))
                   => new.encrypted_password = old.encrypted_password
                /\ "url" \notin given => new.url = old.url
                /\ "notes" \notin given => new.notes = old.notes
                /\ new.created_at = old.created_at
                /\ OthersKept(Store, Store', s)]_vars

\* An update that supplied the url only, at a later time than the save.
C6_Witness ==
    /\ pc = "replied"
    /\ response.tool = "update_password"
    /\ response.kind = "updated"
    /\ response.fields = <<"url">>
    /\ Len(Store) = 2
    /\ LET e == DictGet(Store, response.service)
       IN  e.updated_at > e.created_at /\ e.username \in Usernames

\* C7: update_password on an existing service with no new values (only the
\* service name) makes no changes: the stored entry after the call equals
\* the stored entry before it.
C7_EmptyUpdateChangesNothing ==
    [][\A s \in Services :
         (UpdateStep(s) /\ response'.fields = <<>>)
         => DictGet(Store', s) = DictGet(Store, s)]_vars

----------------------------------------------------------------------------
(* Properties of generate_password                                         *)

ClassOf(name) ==
    CASE name = "lowercase" -> Range(ascii_lowercase)
      [] name = "uppercase" -> Range(ascii_uppercase)
      [] name = "numbers"   -> Range(digits)
      [] name = "symbols"   -> Range(symbols)
ClassNames == {"lowercase", "uppercase", "numbers", "symbols"}
Enabled(f) == {n \in ClassNames : f[n]}
EnabledUnion(f) == UNION {ClassOf(n) : n \in Enabled(f)}

\* C8: with a length n in 8..128 and at least one character type enabled,
\* generate_password returns a password of exactly n characters, each from
\* the union of the enabled character sets; with all four types disabled
\* it returns the 'At least one character type' error and no password.
C8_GenerateLengthAndAlphabet ==
    gen.pc = "done"
    => IF Enabled(gen.flags) = {}
       THEN gen.kind = "error" /\ gen.password = <<>>
       ELSE gen.length \in SchemaMinLength..SchemaMaxLength
            => /\ gen.kind = "generated"
               /\ Len(gen.password) = gen.length
               /\ \A i \in 1..Len(gen.password) :
                     gen.password[i] \in EnabledUnion(gen.flags)

C8_Witness ==
    /\ gen.pc = "done"
    /\ gen.kind = "generated"
    /\ gen.length = SchemaMinLength
    /\ Enabled(gen.flags) = {"uppercase", "numbers"}
    /\ gen.password[1] # gen.password[2]

\* C9: whenever the requested length is at least the number of enabled
\* character types, the returned password holds at least one character of
\* each enabled type.
C9_OneOfEachType ==
    (gen.pc = "done" /\ gen.kind = "generated"
        /\ gen.length >= Cardinality(Enabled(gen.flags)))
    => \A n \in Enabled(gen.flags) :
          \E i \in 1..Len(gen.password) : gen.password[i] \in ClassOf(n)

C9_Witness ==
    /\ gen.pc = "done"
    /\ gen.kind = "generated"
    /\ gen.length = 4
    /\ Cardinality(Enabled(gen.flags)) = 4
    /\ gen.password[1] \in Range(symbols)

----------------------------------------------------------------------------
(* Properties of MCPServerManager                                          *)

\* C10: add_custom_server(name, ...) returns True and registers the server
\* exactly when no server of that name is registered; when the name exists
\* it returns False and the existing configuration (command, args, env,
\* description and enabled flag) is left unchanged.
C10_AddCustomServer ==
    [][mgrResult'.op = "add_custom_server"
       => LET n == mgrResult'.call.name
              c == mgrResult'.call
          IN  /\ mgrResult'.ret = ~DictHas(servers, n)
              /\ mgrResult'.ret
                 => /\ DictHas(servers', n)
                    /\ DictGet(servers', n) = [c EXCEPT !.env = EnvOrEmpty(c.env)]
                    /\ \A m \in ServerNames \ {n} :
                          EntryOrNone(servers', m) = EntryOrNone(servers, m)
              /\ ~mgrResult'.ret => servers' = servers]_vars

C10_Witness ==
    /\ mgrResult.op = "add_custom_server"
    /\ mgrResult.ret = FALSE
    /\ mgrResult.call.name = "playwright"
    /\ DictHas(servers, "playwright")
    /\ LET e == DictGet(servers, "playwright")
       IN  /\ e.command # mgrResult.call.command
           /\ e.args # mgrResult.call.args
           /\ e.description # mgrResult.call.description
           /\ e.enabled # mgrResult.call.enabled

\* C11: in every state reachable by MCPServerManager operations the server
\* named "filesystem" is registered; remove_server("filesystem") returns
\* False and changes nothing, while remove_server of a registered custom
\* server returns True and removes exactly that server.
C11_FilesystemAlwaysRegistered ==
    /\ [](DictHas(servers, "filesystem"))
    /\ [][mgrResult'.op = "remove_server"
          => LET n == mgrResult'.call.name
             IN  /\ n = "filesystem"
                    => mgrResult'.ret = FALSE /\ servers' = servers
                 /\ (n # "filesystem" /\ DictHas(servers, n))
                    => /\ mgrResult'.ret = TRUE
                       /\ ~DictHas(servers', n)
                       /\ Len(servers') = Len(servers) - 1
                       /\ \A m \in ServerNames \ {n} :
                             EntryOrNone(servers', m) = EntryOrNone(servers, m)]_vars

C11_Witness ==
    /\ mgrResult.op = "remove_server"
    /\ mgrResult.call.name = "playwright"
    /\ mgrResult.ret = TRUE
    /\ ~DictHas(servers, "playwright")
    /\ DictHas(servers, "password-manager")
    /\ DictHas(servers, "filesystem")

EnabledNames(d) == {n \in ServerNames : DictHas(d, n) /\ DictGet(d, n).enabled}

\* C12: create_client_from_selection never builds a client from an empty
\* server set.  When no server is enabled it enables "filesystem" in the
\* manager and the configuration contains only "filesystem"; otherwise the
\* configuration contains exactly the enabled servers, each with its
\* registered command, args and env, and the enabled flags are unchanged.
C12_ClientNeverEmpty ==
    [][mgrResult'.op = "create_client_from_selection"
       => LET config == mgrResult'.config
          IN  /\ config # <<>>
              /\ KeyCount(config, "filesystem") <= 1
              /\ EnabledNames(servers) = {}
                 => /\ DictGet(servers', "filesystem").enabled
                    /\ DictKeys(config) = <<"filesystem">>
                    /\ EnabledNames(servers') = {"filesystem"}
              /\ EnabledNames(servers) # {}
                 => /\ Range(DictKeys(config)) = EnabledNames(servers)
                    /\ Len(config) = Cardinality(EnabledNames(servers))
                    /\ \A n \in EnabledNames(servers) :
                          LET c == DictGet(servers, n)
                          IN  DictGet(config, n) =
                                [command |-> c.command, args |-> c.args,
                                 env |-> c.env]
                    /\ servers' = servers]_vars

C12_Witness ==
    /\ mgrResult.op = "create_client_from_selection"
    /\ DictKeys(mgrResult.config) = <<"filesystem", "playwright">>
    /\ DictGet(mgrResult.config, "playwright").env # <<>>
    /\ DictHas(servers, "password-manager")
    /\ ~DictGet(servers, "password-manager").enabled

----------------------------------------------------------------------------
(* Properties of the WebSocket backend                                     *)

\* The agent was created by a start_agent of another websocket that is
\* still connected.
AgentOfConnectedOther(c) ==
    /\ agent # NoAgent
    /\ agent.owner # c
    /\ agent.owner \in connected_clients
    /\ handler[agent.owner].open

\* C13: with client handlers interleaving at their await points, the
\* cleanup run for a disconnecting client never sets self.agent to None or
\* agent_ready to False while the agent is one that another, still
\* connected client created with start_agent.
C13_CleanupSparesOthersAgent ==
    [][\A c \in Clients :
          (handler[c].pc \in {"idle", "cleanup_close"} /\ handler'[c].pc = "gone"
             /\ AgentOfConnectedOther(c))
          => agent' = agent /\ agent_ready' = agent_ready]_vars

OfType(log, types) == SelectSeq(log, LAMBDA m : m.type \in types)
Positions(log, types) == {i \in 1..Len(log) : log[i].type \in types}
Before(P, Q) == \A i \in P, j \in Q : i < j

\* The messages of one handle_execute_query that found the agent ready and
\* met no exception.
QueryLog(log) ==
    /\ Positions(log, {"stealth_header"}) # {}
    /\ Positions(log, {"error"}) = {}

\* C14: for one execute_query handled with a ready agent whose stream
\* raises no exception, the messages sent are ordered: stealth_header, then
\* stealth_step messages numbered 1, 2, ..., n in order, one per tool_call
\* item of the stream, then stealth_complete with total_steps =
\* tool_executions = n, then chat_response, then status "ready"; no
\* stealth_step or stealth_result is sent after stealth_complete.  A
\* handler that has returned on an open connection has sent all of them.
C14_QueryMessagesOrdered ==
    \A c \in Clients :
        LET log == sent[c]
            steps == OfType(log, {"stealth_step"})
            n == Len(SelectSeq(handler[c].stream, LAMBDA item : item = "tool_call"))
            header == Positions(log, {"stealth_header"})
            work == Positions(log, {"stealth_step", "stealth_result"})
            complete == Positions(log, {"stealth_complete"})
            chat == Positions(log, {"chat_response"})
            ready == {i \in 1..Len(log) : log[i] = Status("ready")}
        IN  QueryLog(log)
            => /\ Cardinality(header) = 1
               /\ \A i \in 1..Len(steps) : steps[i].step_number = i
               /\ Before(header, work \cup complete)
               /\ Before(work, complete)
               /\ Cardinality(complete) <= 1
               /\ \A k \in complete :
                     /\ log[k].total_steps = n
                     /\ log[k].tool_executions = n
                     /\ Len(steps) = n
               /\ Before(complete, chat)
               /\ Before(chat, ready)
               /\ chat # {} => complete # {}
               /\ ready # {} => chat # {}
               /\ (handler[c].pc = "idle" /\ handler[c].open)
                  => /\ complete # {} /\ chat # {}
                     /\ log[Len(log)] = Status("ready")

C14_Witness ==
    /\ handler["c1"].pc = "idle"
    /\ handler["c1"].open
    /\ handler["c1"].stream = <<"tool_call", "tool_result", "tool_call">>
    /\ QueryLog(sent["c1"])
    /\ \E k \in 1..Len(sent["c1"]) :
          /\ sent["c1"][k].type = "stealth_complete"
          /\ sent["c1"][k].total_steps = 2
    /\ sent["c1"][Len(sent["c1"])] = Status("ready")

----------------------------------------------------------------------------
(* Properties of password servers sharing the files                        *)

Decryptable(d, key) ==
    \A i \in 1..Len(d) : decrypt_password(d[i][2].encrypted_password, key).ok

\* C15: the encryption key is created at most once: once the key file
\* exists it is never rewritten, and every entry written by save_password or
\* update_password stays decryptable with the key in the file, after any
\* sequence of tool operations by the processes that share the key file.
C15_KeyCreatedOnce ==
    /\ [][keyFile # NoKey => keyFile' = keyFile]_vars
    /\ [](Decryptable(Store, keyFile))

\* C16: store updates are not lost: once the save_password calls have
\* returned, every service whose save reported success is in the store,
\* also when two processes' load and write steps interleave.
C16_NoLostUpdate ==
    (\A p \in Procs : proc[p].pc \in {"off", "idle"})
    => \A s \in Services : saved[s] # NoSave => DictHas(Store, s)

----------------------------------------------------------------------------
(* Properties of load_passwords                                            *)

\* The storage file is missing or is not valid JSON.
Unreadable(file) == file.kind \in {"missing", "garbage", "undecodable"}

\* C17: load_passwords returns an empty store, without raising, when the
\* storage file is missing or is not valid JSON; a save_password that
\* follows on such a file reports success and writes a store that contains
\* only the newly saved entry.
C17_UnreadableStoreIsEmpty ==
    /\ [](Unreadable(storageFile)
            => ~load_raises(storageFile) /\ load_passwords(storageFile) = <<>>)
    /\ [][(pc = "serving" /\ Unreadable(storageFile)
            /\ response'.tool = "save_password")
          => /\ response'.kind = "saved"
             /\ storageFile'.kind = "json"
             /\ DictKeys(storageFile'.items) = <<response'.service>>]_vars

====
